---- MODULE Spec2Model ----
(***************************************************************************)
(* DiagnoAI front end: the X-Ray and Lab analysis pages as state machines. *)
(*                                                                         *)
(* The state is the React state of the mounted page component              *)
(* (XRayAnalysis or LabAnalysis), the local state of the review surface    *)
(* (ExtractedDataPreview), the browser's store of object URLs, and the     *)
(* Gateway calls whose promise has not settled yet.  One action models one *)
(* event handler up to its first await, or the continuation that runs when *)
(* the awaited Gateway promise settles.  A handler is enabled exactly when *)
(* the control that triggers it is rendered and not disabled.              *)
(***************************************************************************)
EXTENDS Integers, Sequences, FiniteSets, Bags

VARIABLES
    page,            \* route whose page component is mounted (App.tsx Routes)
    calls,           \* bag of the Gateway calls in flight whose continuation
                     \* belongs to the mounted page component
    liveUrls,        \* files that have an object URL made by URL.createObjectURL
                     \* and never revoked
    \* ---- pages/XRayAnalysis.tsx
    selectedType, file, preview, isAnalyzing, result, error,
    \* ---- pages/LabAnalysis.tsx
    step, labType, inputMethod, labFile, ocrResult, analysisResult,
    isProcessing, labError,
    \* ---- components/lab/ExtractedDataPreview (local state)
    rows

xrayVars == <<selectedType, file, preview, isAnalyzing, result, error>>
labVars  == <<step, labType, inputMethod, labFile, ocrResult, analysisResult,
              isProcessing, labError, rows>>
vars     == <<page, calls, liveUrls, xrayVars, labVars>>

----------------------------------------------------------------------------
(* Bounds of the model *)

\* Gateway calls that may be in flight at once.
MaxPending == 2

----------------------------------------------------------------------------
(* Values *)

NULL  == "null"
\* A null object-valued slot (result, preview, ocrResult, analysisResult).
Null  == [tag |-> "null"]

Pages     == {"home", "xray", "lab"}
Files     == {"a.png", "b.png"}
XRayTypes == {"chest", "bone"}
LabTypes  == {"cbc", "liver"}
Methods   == {"manual", "upload"}

XRayError      == "Analysis failed. Please try again."
LabManualError == "Analysis failed. Please try again."
LabUploadError == "File processing failed. Please try again."

\* Response bodies the imaging Gateway may answer with: one carrying the
\* mandatory fields, one lacking them.
XRayBodies == {"valid", "malformed"}

Glucose == [parameter_name |-> "glucose", result_value |-> 95,
            unit |-> "mg/dL", reference_range |-> "70-100"]
Wbc     == [parameter_name |-> "wbc", result_value |-> 7000,
            unit |-> "cells/uL", reference_range |-> "4000-11000"]

\* Row lists the extraction Gateway may answer with.
Extractions == { <<>>, <<Glucose, Wbc>> }

\* Value sets the manual form may submit.
ManualInputs == { <<[parameter_name |-> "wbc", result_value |-> 7000]>> }

\* Texts the user may type into a value field of the review table.
RawInputs == {"", "110"}

\* Response bodies as the result views read them.  Probabilities and
\* confidences are in hundredths (150 is 1.5); a missing overlay field is NULL.
NewOverlays == {NULL, "", "new"}
LegacyOverlays == {NULL, "", "old"}
Conditions == {"Pneumonia", "Effusion"}
ProbValues == {-50, 0, 50, 150}
XRayResponses ==
    [heatmap_b64 : NewOverlays, heatmap_base64 : LegacyOverlays,
     probabilities : [Conditions -> ProbValues]]
ConfValues == {-50, 50, 150}
Percentages == {-20, 50, 120}
LabResponses ==
    [confidence : ConfValues,
     parameters : {<<[name |-> "wbc", percentage |-> p]>> : p \in Percentages}]

\* The texts handleValueChange accepts as its newValue parameter (a string).
AnyTexts == RawInputs \cup {"abc"}

----------------------------------------------------------------------------
(* Helpers *)

\* URL.createObjectURL(f): a handle on the file ...
CreateObjectURL(f) == [tag |-> "blob", of |-> f]

\* ... which the browser keeps alive until it is revoked.
UrlsAfterCreate(urls, f) == urls \cup {f}

\* The not-a-number value, encoded as an integer no lab value takes.
NaN == -1

\* parseFloat on the texts of AnyTexts.
ParseFloat(s) == CASE s = "110" -> 110
                   [] s = "95"  -> 95
                   [] s = "abc" -> NaN

\* getFieldsForType(type): the manual form has fields for some types only.
HasFields(t) == t \in {"cbc", "metabolic"}

\* Mutant: the Button forgets its isLoading flag.
ButtonDisabledIgnoringLoading(disabled, isLoading) == disabled

\* JavaScript truthiness of an optional string field.
Truthy(x) == x \notin {NULL, ""}

\* Mutant: the legacy overlay field is looked at first.
HeatmapSrcLegacyFirst(r) ==
    IF Truthy(r.heatmap_base64)
    THEN "data:image/png;base64," \o r.heatmap_base64
    ELSE IF Truthy(r.heatmap_b64)
         THEN "data:image/png;base64," \o r.heatmap_b64
         ELSE NULL

\* heatmapSrc of AnalysisResults.
HeatmapSrc(r) ==
    IF Truthy(r.heatmap_b64)
    THEN "data:image/png;base64," \o r.heatmap_b64
    ELSE IF Truthy(r.heatmap_base64)
         THEN "data:image/png;base64," \o r.heatmap_base64
         ELSE NULL

Min(a, b) == IF a <= b THEN a ELSE b
Max(a, b) == IF a >= b THEN a ELSE b

\* sortedProbs of AnalysisResults: the entries by descending probability,
\* the first 8 of them.
SortedProbs(probs) ==
    LET n == Cardinality(DOMAIN probs)
        q == CHOOSE o \in [1..n -> DOMAIN probs] :
                /\ \A i, j \in 1..n : i # j => o[i] # o[j]
                /\ \A i, j \in 1..n : i < j => probs[o[i]] >= probs[o[j]]
    IN  [i \in 1..Min(n, 8) |-> <<q[i], probs[q[i]]>>]

\* width: `${prob * 100}%` of a probability bar, in hundredths of a percent.
BarWidth(prob) == prob * 100

\* left: `${Math.min(100, Math.max(0, param.percentage))}%` of a value marker.
MarkerLeft(percentage) == Min(100, Max(0, percentage))

\* (result.confidence * 100).toFixed(1) of LabResults, in hundredths of a
\* percent.
ConfidenceShown(confidence) == confidence * 100

\* Mutant: a Button that ignores its disabled prop.
ButtonDisabledIgnoringDisabled(disabled, isLoading) == isLoading

\* Button.tsx: disabled={disabled || isLoading}
ButtonDisabled(disabled, isLoading) == disabled \/ isLoading

\* A request of services/xrayService or services/labService: the operation,
\* the file sent (if any) and the values sent (the subtype for an imaging
\* call, the row set for an analysis-from-values call).
Call(op, f, v) == [op |-> op, file |-> f, values |-> v]

Issue(c)  == calls (+) SetToBag({c})
Settle(c) == calls (-) SetToBag({c})

InFlight     == BagCardinality(calls)
Pending(op)  == {c \in BagToSet(calls) : c.op = op}
NumPending(op) == BagCardinality([c \in Pending(op) |-> calls[c]])

\* The review surface is mounted: {step === 2 && ocrResult && ...}
ReviewMounted(s, ocr) == s = 2 /\ ocr # Null

----------------------------------------------------------------------------
(* Initial state: the home page; no page component state exists yet, the   *)
(* slots hold the useState initial values.                                 *)

XRayInit ==
    /\ selectedType = "chest"
    /\ file = NULL
    /\ preview = Null
    /\ isAnalyzing = FALSE
    /\ result = Null
    /\ error = NULL

LabInit ==
    /\ step = 1
    /\ labType = "cbc"
    /\ inputMethod = "manual"
    /\ labFile = NULL
    /\ ocrResult = Null
    /\ analysisResult = Null
    /\ isProcessing = FALSE
    /\ labError = NULL
    /\ rows = <<>>

\* The same useState initial values, taken by a page component that mounts.
XRayMount ==
    /\ selectedType' = "chest"
    /\ file' = NULL
    /\ preview' = Null
    /\ isAnalyzing' = FALSE
    /\ result' = Null
    /\ error' = NULL

LabMount ==
    /\ step' = 1
    /\ labType' = "cbc"
    /\ inputMethod' = "manual"
    /\ labFile' = NULL
    /\ ocrResult' = Null
    /\ analysisResult' = Null
    /\ isProcessing' = FALSE
    /\ labError' = NULL
    /\ rows' = <<>>

Init ==
    /\ page = "home"
    /\ calls = EmptyBag
    /\ liveUrls = {}
    /\ XRayInit
    /\ LabInit

----------------------------------------------------------------------------
(* Routing *)

\* A Navbar link to another route: the mounted page component is unmounted
\* and its state is gone; the new page mounts with its initial state.  Calls
\* in flight are not cancelled, but their continuations now set state on an
\* unmounted component, which React ignores: they leave `calls`.  No object
\* URL is revoked.
Navigate(p) ==
    /\ p # page
    /\ page' = p
    /\ calls' = EmptyBag
    /\ XRayMount
    /\ LabMount
    /\ UNCHANGED liveUrls

----------------------------------------------------------------------------
(* pages/XRayAnalysis.tsx *)

\* XRayTypeSelector, rendered in the upload view (!result).
SetSelectedType(t) ==
    /\ page = "xray"
    /\ result = Null
    /\ t # selectedType
    /\ selectedType' = t
    /\ UNCHANGED <<page, calls, liveUrls, file, preview, isAnalyzing, result, error, labVars>>

\* ImageUploader.onUpload, rendered when !result && !file.
handleFileSelect(uploadedFile) ==
    /\ page = "xray"
    /\ result = Null /\ file = NULL
    /\ file' = uploadedFile
    /\ preview' = CreateObjectURL(uploadedFile)
    /\ liveUrls' = UrlsAfterCreate(liveUrls, uploadedFile)
    /\ result' = Null
    /\ error' = NULL
    /\ UNCHANGED <<page, calls, selectedType, isAnalyzing, labVars>>

\* The "Analyze X-Ray" Button: rendered when !result && file,
\* isLoading={isAnalyzing}.
AnalyzeEnabled ==
    /\ page = "xray"
    /\ result = Null /\ file # NULL
    /\ ~ButtonDisabled(FALSE, isAnalyzing)

\* Mutant: handleAnalyze without its early return.
handleAnalyzeNoFileCheck ==
    /\ InFlight < MaxPending
    /\ isAnalyzing' = TRUE
    /\ error' = NULL
    /\ calls' = Issue(Call("xray", file, <<selectedType>>))
    /\ UNCHANGED <<page, liveUrls, selectedType, file, preview, result, labVars>>

\* handleAnalyze up to the await: it returns at once when no file is selected.
handleAnalyze ==
    IF file = NULL                       \* if (!file) return;
    THEN UNCHANGED vars
    ELSE /\ InFlight < MaxPending
         /\ isAnalyzing' = TRUE
         /\ error' = NULL
         /\ calls' = Issue(Call("xray", file, <<selectedType>>))
         /\ UNCHANGED <<page, liveUrls, selectedType, file, preview, result, labVars>>

\* A click on the "Analyze X-Ray" Button.
AnalyzeClick == AnalyzeEnabled /\ handleAnalyze

\* handleAnalyze called on the mounted page whatever the view renders.
AnalyzeCall == page = "xray" /\ handleAnalyze

\* handleAnalyze after the await, the promise fulfilled with a body.
analyzeXRayResolve(c, body) ==
    /\ c \in Pending("xray")
    /\ result' = [tag |-> "xray", file |-> c.file,
                  type |-> c.values[1], body |-> body]
    /\ isAnalyzing' = FALSE
    /\ calls' = Settle(c)
    /\ UNCHANGED <<page, liveUrls, selectedType, file, preview, error, labVars>>

\* Mutant: the busy flag is cleared on success only (no finally block).
analyzeXRayRejectStaysBusy(c) ==
    /\ c \in Pending("xray")
    /\ error' = XRayError
    /\ calls' = Settle(c)
    /\ UNCHANGED <<page, liveUrls, selectedType, file, preview, isAnalyzing, result, labVars>>

\* Mutant: the catch block drops the file, as the one of handleFileUpload does.
analyzeXRayRejectDropsFile(c) ==
    /\ c \in Pending("xray")
    /\ error' = XRayError
    /\ file' = NULL
    /\ isAnalyzing' = FALSE
    /\ calls' = Settle(c)
    /\ UNCHANGED <<page, liveUrls, selectedType, preview, result, labVars>>

\* handleAnalyze after the await, the promise rejected.
analyzeXRayReject(c) ==
    /\ c \in Pending("xray")
    /\ error' = XRayError
    /\ isAnalyzing' = FALSE
    /\ calls' = Settle(c)
    /\ UNCHANGED <<page, liveUrls, selectedType, file, preview, result, labVars>>

\* resetAnalysis is reachable from the round icon button on the preview
\* (never disabled), from "Change Image" (disabled={isAnalyzing}) and from
\* "Analyze Another" in the results view.
XRayResetEnabled ==
    /\ page = "xray"
    /\ \/ result = Null /\ file # NULL
       \/ result # Null

\* Mutant: the reset forgets the error slot.
xrayResetAnalysisKeepsError ==
    /\ XRayResetEnabled
    /\ file' = NULL
    /\ preview' = Null
    /\ result' = Null
    /\ UNCHANGED <<page, calls, liveUrls, selectedType, isAnalyzing, error, labVars>>

\* Mutant: resetAnalysis forgets setPreview(null).
xrayResetAnalysisKeepsPreview ==
    /\ XRayResetEnabled
    /\ file' = NULL
    /\ result' = Null
    /\ error' = NULL
    /\ UNCHANGED <<page, calls, liveUrls, selectedType, preview, isAnalyzing,
                   labVars>>

xrayResetAnalysis ==
    /\ XRayResetEnabled
    /\ file' = NULL
    /\ preview' = Null
    /\ result' = Null
    /\ error' = NULL
    /\ UNCHANGED <<page, calls, liveUrls, selectedType, isAnalyzing, labVars>>

\* The Gateway settles an imaging call of the mounted page.
XRaySettle ==
    \E c \in Pending("xray") :
        \/ \E b \in XRayBodies : analyzeXRayResolve(c, b)
        \/ analyzeXRayReject(c)

XRayNext ==
    \/ \E t \in XRayTypes : SetSelectedType(t)
    \/ \E f \in Files : handleFileSelect(f)
    \/ AnalyzeClick
    \/ \E c \in Pending("xray") : \E b \in XRayBodies : analyzeXRayResolve(c, b)
    \/ \E c \in Pending("xray") : analyzeXRayReject(c)
    \/ xrayResetAnalysis

----------------------------------------------------------------------------
(* pages/LabAnalysis.tsx and the review surface it mounts *)

\* ExtractedDataPreview calls URL.createObjectURL(originalFile) in its body:
\* every render of it with a file makes an object URL of that file.
UrlsAfterLabRender(s, ocr, f) ==
    IF ReviewMounted(s, ocr) /\ f # NULL
    THEN UrlsAfterCreate(liveUrls, f)
    ELSE liveUrls

\* TestTypeSelector, rendered in step 1.
handleTypeSelect(t) ==
    /\ page = "lab"
    /\ step = 1
    /\ labType' = t
    /\ labError' = NULL
    /\ UNCHANGED <<page, calls, liveUrls, xrayVars, step, inputMethod, labFile,
                   ocrResult, analysisResult, isProcessing, rows>>

\* InputMethodSelector, rendered in step 1.
setInputMethod(m) ==
    /\ page = "lab"
    /\ step = 1
    /\ m # inputMethod
    /\ inputMethod' = m
    /\ UNCHANGED <<page, calls, liveUrls, xrayVars, step, labType, labFile,
                   ocrResult, analysisResult, isProcessing, labError, rows>>

\* handleManualSubmit up to the await.
handleManualSubmit(values) ==
    /\ InFlight < MaxPending
    /\ isProcessing' = TRUE
    /\ labError' = NULL
    /\ calls' = Issue(Call("manual", NULL, values))
    /\ liveUrls' = UrlsAfterLabRender(step, ocrResult, labFile)
    /\ UNCHANGED <<page, xrayVars, step, labType, inputMethod, labFile,
                   ocrResult, analysisResult, rows>>

\* ManualInputForm in step 1: the submit Button exists when the type has
\* fields and carries isLoading={isProcessing}.
ManualFormSubmit ==
    /\ page = "lab"
    /\ step = 1 /\ inputMethod = "manual"
    /\ HasFields(labType)
    /\ ~ButtonDisabled(FALSE, isProcessing)
    /\ \E v \in ManualInputs : handleManualSubmit(v)

\* FileUploader.onUpload in step 1 (the dropzone takes no loading flag):
\* handleFileUpload up to the await.
handleFileUpload(uploadedFile) ==
    /\ page = "lab"
    /\ step = 1 /\ inputMethod = "upload"
    /\ InFlight < MaxPending
    /\ labFile' = uploadedFile
    /\ isProcessing' = TRUE
    /\ labError' = NULL
    /\ calls' = Issue(Call("upload", uploadedFile, <<>>))
    /\ UNCHANGED <<page, liveUrls, xrayVars, step, labType, inputMethod,
                   ocrResult, analysisResult, rows>>

\* handleFileUpload after the await, fulfilled.  The review surface renders
\* with rows = [] and its effect on [ocrResult] then stores the extracted
\* rows, which renders it again.
\* Mutant: the review surface drops the first extracted row.
uploadLabFileResolveDropsRow(c, data) ==
    /\ c \in Pending("upload")
    /\ ocrResult' = [tag |-> "ocr", extracted_data |-> data]
    /\ step' = 2
    /\ isProcessing' = FALSE
    /\ rows' = IF data = <<>> THEN <<>> ELSE Tail(data)
    /\ liveUrls' = UrlsAfterLabRender(2, ocrResult', labFile)
    /\ calls' = Settle(c)
    /\ UNCHANGED <<page, xrayVars, labType, inputMethod, labFile,
                   analysisResult, labError>>

uploadLabFileResolve(c, data) ==
    /\ c \in Pending("upload")
    /\ ocrResult' = [tag |-> "ocr", extracted_data |-> data]
    /\ step' = 2
    /\ isProcessing' = FALSE
    /\ rows' = data
    /\ liveUrls' = UrlsAfterLabRender(2, ocrResult', labFile)
    /\ calls' = Settle(c)
    /\ UNCHANGED <<page, xrayVars, labType, inputMethod, labFile,
                   analysisResult, labError>>

\* Mutant: the catch block keeps the file.
uploadLabFileRejectKeepsFile(c) ==
    /\ c \in Pending("upload")
    /\ labError' = LabUploadError
    /\ isProcessing' = FALSE
    /\ calls' = Settle(c)
    /\ liveUrls' = UrlsAfterLabRender(step, ocrResult, labFile)
    /\ UNCHANGED <<page, xrayVars, step, labType, inputMethod, labFile,
                   ocrResult, analysisResult, rows>>

\* Mutant: the catch block shows the message of handleManualSubmit.
uploadLabFileRejectSameMessage(c) ==
    /\ c \in Pending("upload")
    /\ labError' = LabManualError
    /\ labFile' = NULL
    /\ isProcessing' = FALSE
    /\ calls' = Settle(c)
    /\ UNCHANGED <<page, liveUrls, xrayVars, step, labType, inputMethod,
                   ocrResult, analysisResult, rows>>

\* handleFileUpload after the await, rejected.
uploadLabFileReject(c) ==
    /\ c \in Pending("upload")
    /\ labError' = LabUploadError
    /\ labFile' = NULL
    /\ isProcessing' = FALSE
    /\ calls' = Settle(c)
    /\ UNCHANGED <<page, liveUrls, xrayVars, step, labType, inputMethod,
                   ocrResult, analysisResult, rows>>

\* handleManualSubmit after the await, fulfilled.  Step 3 unmounts the
\* review surface, whose local rows are gone.
\* Mutant: the success branch moves to step 2 instead of step 3.
analyzeLabManualResolveToReview(c) ==
    /\ c \in Pending("manual")
    /\ analysisResult' = [tag |-> "lab", values |-> c.values]
    /\ step' = 2
    /\ isProcessing' = FALSE
    /\ rows' = <<>>
    /\ calls' = Settle(c)
    /\ UNCHANGED <<page, liveUrls, xrayVars, labType, inputMethod, labFile,
                   ocrResult, labError>>

\* Mutant: the success branch forgets setAnalysisResult.
analyzeLabManualResolveNoResult(c) ==
    /\ c \in Pending("manual")
    /\ step' = 3
    /\ isProcessing' = FALSE
    /\ rows' = <<>>
    /\ calls' = Settle(c)
    /\ UNCHANGED <<page, liveUrls, xrayVars, labType, inputMethod, labFile,
                   ocrResult, analysisResult, labError>>

analyzeLabManualResolve(c) ==
    /\ c \in Pending("manual")
    /\ analysisResult' = [tag |-> "lab", values |-> c.values]
    /\ step' = 3
    /\ isProcessing' = FALSE
    /\ rows' = <<>>
    /\ calls' = Settle(c)
    /\ UNCHANGED <<page, liveUrls, xrayVars, labType, inputMethod, labFile,
                   ocrResult, labError>>

\* analyzeLabManualResolve with the response body LabResults renders kept in
\* the result.
analyzeLabManualResolveBody(c, data) ==
    /\ c \in Pending("manual")
    /\ analysisResult' = [tag |-> "lab", values |-> c.values, body |-> data]
    /\ step' = 3
    /\ isProcessing' = FALSE
    /\ rows' = <<>>
    /\ calls' = Settle(c)
    /\ UNCHANGED <<page, liveUrls, xrayVars, labType, inputMethod, labFile,
                   ocrResult, labError>>

\* Mutant: the catch block drops the file, as the one of handleFileUpload does.
analyzeLabManualRejectDropsFile(c) ==
    /\ c \in Pending("manual")
    /\ labError' = LabManualError
    /\ labFile' = NULL
    /\ isProcessing' = FALSE
    /\ calls' = Settle(c)
    /\ UNCHANGED <<page, liveUrls, xrayVars, step, labType, inputMethod,
                   ocrResult, analysisResult, rows>>

\* handleManualSubmit after the await, rejected.
analyzeLabManualReject(c) ==
    /\ c \in Pending("manual")
    /\ labError' = LabManualError
    /\ isProcessing' = FALSE
    /\ liveUrls' = UrlsAfterLabRender(step, ocrResult, labFile)
    /\ calls' = Settle(c)
    /\ UNCHANGED <<page, xrayVars, step, labType, inputMethod, labFile,
                   ocrResult, analysisResult, rows>>

\* ExtractedDataPreview.handleValueChange: the value inputs of the table.
\* Mutant: the edit is made in place; rows is the very array that
\* setRows(ocrResult.extracted_data) took from the extraction result.
handleValueChangeInPlace(index, newValue) ==
    /\ page = "lab"
    /\ ReviewMounted(step, ocrResult)
    /\ index \in DOMAIN rows
    /\ rows' = [rows EXCEPT ![index] =
                   [@ EXCEPT !.result_value =
                        IF newValue = "" THEN 0 ELSE ParseFloat(newValue)]]
    /\ ocrResult' = [ocrResult EXCEPT !.extracted_data = rows']
    /\ liveUrls' = UrlsAfterLabRender(step, ocrResult, labFile)
    /\ UNCHANGED <<page, calls, xrayVars, step, labType, inputMethod, labFile,
                   analysisResult, isProcessing, labError>>

\* Mutant: the new value is written to every row, not to rows[index] alone.
handleValueChangeAllRows(index, newValue) ==
    /\ page = "lab"
    /\ ReviewMounted(step, ocrResult)
    /\ index \in DOMAIN rows
    /\ rows' = [j \in DOMAIN rows |->
                   [rows[j] EXCEPT !.result_value =
                        IF newValue = "" THEN 0 ELSE ParseFloat(newValue)]]
    /\ liveUrls' = UrlsAfterLabRender(step, ocrResult, labFile)
    /\ UNCHANGED <<page, calls, xrayVars, step, labType, inputMethod, labFile,
                   ocrResult, analysisResult, isProcessing, labError>>

handleValueChange(index, newValue) ==
    /\ page = "lab"
    /\ ReviewMounted(step, ocrResult)
    /\ index \in DOMAIN rows
    /\ rows' = [rows EXCEPT ![index] =
                   [@ EXCEPT !.result_value =
                        IF newValue = "" THEN 0 ELSE ParseFloat(newValue)]]
    /\ liveUrls' = UrlsAfterLabRender(step, ocrResult, labFile)
    /\ UNCHANGED <<page, calls, xrayVars, step, labType, inputMethod, labFile,
                   ocrResult, analysisResult, isProcessing, labError>>

\* Mutant: the review surface confirms the extracted rows, not the edited ones.
handleReviewConfirmOriginalRows ==
    /\ page = "lab"
    /\ ReviewMounted(step, ocrResult)
    /\ ~ButtonDisabled(Len(rows) = 0, isProcessing)
    /\ handleManualSubmit(ocrResult.extracted_data)

\* The form of the review surface: handleSubmit -> onConfirm(rows) ->
\* handleReviewConfirm -> handleManualSubmit.  Its submit Button carries
\* isLoading={isLoading} disabled={rows.length === 0}.
handleReviewConfirm ==
    /\ page = "lab"
    /\ ReviewMounted(step, ocrResult)
    /\ ~ButtonDisabled(Len(rows) = 0, isProcessing)
    /\ handleManualSubmit(rows)

\* resetAnalysis is reachable from "Back" and "Upload Different File" in
\* step 2 and from "Analyze Another Report" in step 3; none is ever disabled.
LabResetEnabled ==
    /\ page = "lab"
    /\ \/ step = 2 /\ ocrResult # Null
       \/ step = 3 /\ analysisResult # Null

\* Mutant: resetAnalysis forgets setStep(1).
labResetAnalysisKeepsStep ==
    /\ LabResetEnabled
    /\ labFile' = NULL
    /\ ocrResult' = Null
    /\ analysisResult' = Null
    /\ labError' = NULL
    /\ rows' = <<>>
    /\ UNCHANGED <<page, calls, liveUrls, xrayVars, step, labType, inputMethod,
                   isProcessing>>

labResetAnalysis ==
    /\ LabResetEnabled
    /\ step' = 1
    /\ labFile' = NULL
    /\ ocrResult' = Null
    /\ analysisResult' = Null
    /\ labError' = NULL
    /\ rows' = <<>>
    /\ UNCHANGED <<page, calls, liveUrls, xrayVars, labType, inputMethod, isProcessing>>

LabNext ==
    \/ \E t \in LabTypes : handleTypeSelect(t)
    \/ \E m \in Methods : setInputMethod(m)
    \/ ManualFormSubmit
    \/ \E f \in Files : handleFileUpload(f)
    \/ \E c \in Pending("upload") : \E d \in Extractions : uploadLabFileResolve(c, d)
    \/ \E c \in Pending("upload") : uploadLabFileReject(c)
    \/ \E c \in Pending("manual") : analyzeLabManualResolve(c)
    \/ \E c \in Pending("manual") : analyzeLabManualReject(c)
    \/ \E i \in DOMAIN rows : \E v \in RawInputs : handleValueChange(i, v)
    \/ handleReviewConfirm
    \/ labResetAnalysis

----------------------------------------------------------------------------
Next ==
    \/ \E p \in Pages : Navigate(p)
    \/ XRayNext
    \/ LabNext

Spec == Init /\ [][Next]_vars

LiveSpec == Spec /\ WF_vars(XRaySettle)

\* The imaging page with handleAnalyze also called directly, in any state of
\* the mounted page.
XRayHandlerNext ==
    \/ \E p \in Pages : Navigate(p)
    \/ XRayNext
    \/ AnalyzeCall

XRayHandlerSpec == Init /\ [][XRayHandlerNext]_vars

\* The lab page with handleValueChange also called directly, with any text.
LabHandlerNext ==
    \/ \E p \in Pages : Navigate(p)
    \/ LabNext
    \/ \E i \in DOMAIN rows : \E v \in AnyTexts : handleValueChange(i, v)

LabHandlerSpec == Init /\ [][LabHandlerNext]_vars

\* The two pages up to their result views, the Gateway answering with the
\* response bodies AnalysisResults and LabResults render.
RenderNext ==
    \/ \E p \in Pages : Navigate(p)
    \/ \E f \in Files : handleFileSelect(f)
    \/ AnalyzeClick
    \/ \E c \in Pending("xray") : \E body \in XRayResponses :
          analyzeXRayResolve(c, body)
    \/ xrayResetAnalysis
    \/ ManualFormSubmit
    \/ \E c \in Pending("manual") : \E data \in LabResponses :
          analyzeLabManualResolveBody(c, data)
    \/ labResetAnalysis

RenderSpec == Init /\ [][RenderNext]_vars

----------------------------------------------------------------------------
(* Claims *)

\* C1: imaging flow - an analyze() invoked while an earlier one is in flight
\* issues no second Gateway call: at most one imaging call is outstanding
\* per session in every reachable state.
C1_OneImagingCallInFlight == NumPending("xray") <= 1

\* C1 witness: a call is in flight while the Analyze button is rendered (a
\* file is selected, no result): the trigger exists and is refused.
C1_Witness ==
    /\ page = "xray" /\ file # NULL /\ result = Null
    /\ NumPending("xray") = 1 /\ isAnalyzing

\* C2: both flows - the settlement of a call that was in flight when its
\* session was reset changes neither step, file, results nor error.  (A call
\* in flight with no file selected, or a call carrying review rows with no
\* extraction result held, was issued before a reset.)
C2_SettlementAfterResetIgnored ==
    [][/\ \A c \in Pending("xray") :
            (page = "xray" /\ page' = page /\ file = NULL /\ calls' = Settle(c))
                => UNCHANGED <<file, preview, result, error>>
       /\ \A c \in Pending("manual") :
            (page = "lab" /\ page' = page /\ ocrResult = Null
                /\ c.values \notin ManualInputs /\ calls' = Settle(c))
                => UNCHANGED <<step, labFile, ocrResult, analysisResult, labError>>
      ]_vars

\* C3: lab flow - the session never holds an ExtractionResult and an
\* AnalysisResult at the same time.
C3_AtMostOneResult == ~(ocrResult # Null /\ analysisResult # Null)

C5_ConfirmFailureKeepsReview ==
    [][\A c \in Pending("manual") :
          analyzeLabManualReject(c) =>
              /\ step' = step
              /\ labError' = LabManualError
              /\ ~isProcessing'
              /\ UNCHANGED <<rows, labFile, ocrResult>>
      ]_vars

\* C5 witness: Reviewing after a failed confirm, the edited rows and the
\* file still there.
C5_Witness ==
    /\ page = "lab" /\ step = 2 /\ ocrResult # Null
    /\ labError = LabManualError /\ ~isProcessing /\ InFlight = 0
    /\ labFile # NULL
    /\ rows # <<>> /\ rows # ocrResult.extracted_data

\* C6: imaging flow - a held result was computed for the selected file.
C6_NoStaleResult ==
    (page = "xray" /\ result # Null /\ file # NULL) => result.file = file

\* C7: both flows - reset() leaves the initial step with file, extraction
\* result, analysis result and error cleared, a call in flight or not.
C7_ResetClears ==
    [][/\ xrayResetAnalysis =>
            (file' = NULL /\ preview' = Null /\ result' = Null /\ error' = NULL)
       /\ labResetAnalysis =>
            (step' = 1 /\ labFile' = NULL /\ ocrResult' = Null
                /\ analysisResult' = Null /\ labError' = NULL)
      ]_vars

\* C7 witness: a reset imaging session whose call is still in flight.
C7_Witness ==
    /\ page = "xray" /\ Pending("xray") # {}
    /\ file = NULL /\ result = Null /\ error = NULL

\* Files whose object URL a mounted view still shows.
UrlsInUse ==
    (IF preview # Null THEN {preview.of} ELSE {})
        \cup (IF ReviewMounted(step, ocrResult) /\ labFile # NULL THEN {labFile} ELSE {})

\* C8: every preview handle is released when it is superseded, on reset() or
\* on teardown: no object URL outlives its use.
C8_HandlesReleased == liveUrls \subseteq UrlsInUse

\* C9: lab flow - at most one lab Gateway call is outstanding per session.
C9_OneLabCallInFlight == NumPending("upload") + NumPending("manual") <= 1

\* C10: imaging flow - under a Gateway that eventually settles every call,
\* an analyze() that issued a call leads to a state of its session with no
\* call in flight, the busy flag cleared, and a result or the error stored
\* (or the session was torn down by navigating away).
C10_AnalyzeSettles ==
    (Pending("xray") # {}) ~>
        (\/ page # "xray"
         \/ /\ Pending("xray") = {}
            /\ ~isAnalyzing
            /\ (result # Null \/ error = XRayError))

\* C10 witness: the Failed outcome - error stored, file retained, idle.
C10_Witness ==
    /\ page = "xray" /\ file # NULL /\ error = XRayError
    /\ ~isAnalyzing /\ Pending("xray") = {}

\* C11: imaging flow - a failed analyze() call sets the generic message and
\* clears the busy flag, the file and the preview are kept as they are, and
\* no result is stored.
C11_AnalyzeFailure ==
    [][\A c \in Pending("xray") :
          analyzeXRayReject(c) =>
              /\ error' = XRayError
              /\ UNCHANGED <<file, preview>>
              /\ result' = Null
              /\ ~isAnalyzing'
      ]_vars

\* C11 witness: Failed - the message shown over the retained file and its
\* preview, no result, idle.
C11_Witness ==
    /\ page = "xray" /\ error = XRayError
    /\ file # NULL /\ preview = CreateObjectURL(file)
    /\ result = Null /\ ~isAnalyzing /\ InFlight = 0

\* C12: a response that lacks a mandatory identity field is never stored as
\* a result.
C12_MalformedNeverStored == result # Null => result.body = "valid"

\* C13 as stated: the lab error slot only ever shows one message, the one of
\* an analysis failure, whichever operation failed.
C13_OneLabMessage == labError \in {NULL, LabManualError}

\* C13 as amended: each Gateway operation has its own fixed message.
C13_OneMessagePerOperation ==
    [][/\ \A c \in Pending("upload") :
            (page' = page /\ calls' = Settle(c) /\ labError' # labError)
                => labError' = LabUploadError
       /\ \A c \in Pending("manual") :
            (page' = page /\ calls' = Settle(c) /\ labError' # labError)
                => labError' = LabManualError
       /\ \A c \in Pending("xray") :
            (page' = page /\ calls' = Settle(c) /\ error' # error)
                => error' = XRayError
      ]_vars

\* C13 witness: the extraction message is shown while an analysis call,
\* which may yet fail with the other message, is in flight.
C13_Witness ==
    /\ page = "lab" /\ labError = LabUploadError
    /\ LabUploadError # LabManualError
    /\ NumPending("manual") = 1

\* C14: handleAnalyze called while no file is selected issues no Gateway
\* call and changes nothing of the session.
C14_AnalyzeWithoutFile ==
    [][(page = "xray" /\ file = NULL /\ handleAnalyze) =>
          UNCHANGED <<calls, selectedType, file, preview, isAnalyzing,
                      result, error>>
      ]_vars

\* C14 witness: the session is back in Idle after a file had been selected;
\* handleAnalyze called here meets its early return.
C14_Witness ==
    /\ page = "xray" /\ file = NULL /\ preview = Null /\ result = Null
    /\ error = NULL /\ ~isAnalyzing /\ InFlight = 0
    /\ liveUrls # {}

\* C15: the review step is entered only by the settlement of a successful
\* extraction call, which stores the extraction result.
C15_ReviewOnlyAfterExtraction ==
    [][(step # 2 /\ step' = 2) =>
          /\ \E c \in Pending("upload") : calls' = Settle(c)
          /\ ocrResult' # Null
          /\ rows' = ocrResult'.extracted_data
      ]_vars

\* C15 witness: Reviewing, entered from an extraction.
C15_Witness ==
    /\ page = "lab" /\ step = 2 /\ ocrResult # Null
    /\ analysisResult = Null /\ InFlight = 0 /\ ~isProcessing

\* C16: submitting the manual form issues the analysis-from-values call with
\* the values entered; its success stores the result and moves to step 3.
C16_ManualSubmit ==
    [][/\ ManualFormSubmit =>
            /\ \E v \in ManualInputs : calls' = Issue(Call("manual", NULL, v))
            /\ isProcessing' /\ step' = step
       /\ \A c \in Pending("manual") :
            analyzeLabManualResolve(c) =>
                /\ step' = 3
                /\ analysisResult' # Null
                /\ analysisResult'.values = c.values
                /\ ~isProcessing'
      ]_vars

\* C16 witness: Complete reached from the manual form, without an extraction.
C16_Witness ==
    /\ page = "lab" /\ step = 3 /\ analysisResult # Null
    /\ analysisResult.values \in ManualInputs
    /\ ocrResult = Null /\ labFile = NULL

C18_EditRowFrame ==
    [][(/\ page = "lab" /\ page' = page
        /\ step = 2 /\ step' = 2
        /\ calls' = calls
        /\ rows' # rows) =>
          /\ Len(rows') = Len(rows)
          /\ \E i \in DOMAIN rows :
                /\ \A j \in DOMAIN rows \ {i} : rows'[j] = rows[j]
                /\ rows'[i] = [rows[i] EXCEPT
                                  !.result_value = rows'[i].result_value]
      ]_vars

\* C18 witness: the first of two rows edited, the second as extracted.
C18_Witness ==
    /\ page = "lab" /\ step = 2 /\ ocrResult # Null /\ Len(rows) = 2
    /\ rows[1] # ocrResult.extracted_data[1]
    /\ rows[1].parameter_name = ocrResult.extracted_data[1].parameter_name
    /\ rows[2] = ocrResult.extracted_data[2]

C20_EmptyNeverConfirmed ==
    /\ \A c \in Pending("manual") : c.values # <<>>
    /\ analysisResult # Null => analysisResult.values # <<>>
    /\ (page = "lab" /\ ReviewMounted(step, ocrResult)
           /\ ocrResult.extracted_data = <<>>) => rows = <<>>

\* C20 witness: an empty extraction under review, idle, nothing in flight.
C20_Witness ==
    /\ page = "lab" /\ step = 2 /\ ocrResult # Null
    /\ ocrResult.extracted_data = <<>> /\ rows = <<>>
    /\ ~isProcessing /\ InFlight = 0 /\ analysisResult = Null

\* cur is orig with nothing but the values of its rows changed.
EditedCopy(orig, cur) ==
    /\ Len(cur) = Len(orig)
    /\ \A i \in DOMAIN orig :
          cur[i] = [orig[i] EXCEPT !.result_value = cur[i].result_value]

\* C21: the rows a confirm submits are the rows of the extraction result, all
\* of them and in their order, each with its name, unit and reference range
\* and with the value last entered.
C21_ConfirmSubmitsAllRows ==
    [][handleReviewConfirm =>
          \E c \in BagToSet(calls') :
              /\ calls' = Issue(c)
              /\ c.op = "manual"
              /\ EditedCopy(ocrResult.extracted_data, c.values)
      ]_vars

\* C21 witness: glucose edited from 95 to "110" and the review confirmed; the
\* call in flight carries glucose = 110 and the untouched second row.
C21_Witness ==
    /\ page = "lab" /\ step = 2 /\ ocrResult # Null
    /\ ocrResult.extracted_data = <<Glucose, Wbc>>
    /\ \E c \in Pending("manual") :
          c.values = <<[Glucose EXCEPT !.result_value = 110], Wbc>>

\* C22: the extraction result held by the session always carries the rows
\* the Gateway returned, whatever has been edited in the review.
C22_ExtractionUntouched ==
    ocrResult # Null => ocrResult.extracted_data \in Extractions

\* C22 witness: both rows edited in the review, the extraction result as
\* returned.
C22_Witness ==
    /\ page = "lab" /\ step = 2 /\ ocrResult # Null
    /\ ocrResult.extracted_data = <<Glucose, Wbc>>
    /\ Len(rows) = 2
    /\ rows[1].result_value # Glucose.result_value
    /\ rows[2].result_value # Wbc.result_value

\* C26: on the imaging page a result is never held without a file and its
\* preview.
C26_ResultHasFile ==
    (page = "xray" /\ result # Null) => (file # NULL /\ preview # Null)

\* C27: the busy flag of the mounted page is true exactly while one of its
\* Gateway calls is in flight.
C27_BusyIffInFlight ==
    /\ page = "xray" => (isAnalyzing <=> NumPending("xray") > 0)
    /\ page = "lab" =>
          (isProcessing <=> NumPending("upload") + NumPending("manual") > 0)

\* C28: step is 1, 2 or 3; in step 2 an extraction result is held and in
\* step 3 an analysis result, so one of the three views is rendered.
C28_StepHasItsData ==
    /\ step \in {1, 2, 3}
    /\ step = 2 => ocrResult # Null
    /\ step = 3 => analysisResult # Null

\* C28 witness: the results view, after a review.
C28_Witness ==
    /\ page = "lab" /\ step = 3 /\ analysisResult # Null /\ ocrResult # Null
    /\ InFlight = 0

\* C29: the subtype shown with a result is the subtype sent in the call that
\* produced it.
C29_ShownTypeIsSentType ==
    (page = "xray" /\ result # Null) => selectedType = result.type

\* C30: on the imaging page a preview is held exactly when a file is held.
C30_PreviewIffFile == (file = NULL) <=> (preview = Null)

\* C30 witness: Ready - a file with its preview, nothing analysed yet.
C30_Witness ==
    /\ page = "xray" /\ file # NULL /\ preview = CreateObjectURL(file)
    /\ result = Null /\ error = NULL /\ ~isAnalyzing /\ InFlight = 0

\* C23: the overlay shown is the newer field when it is present, also when
\* both are, else the legacy field when it is present, else none; a response
\* with neither field gives a result without overlay and no error.
C23_OverlayPrecedence ==
    result # Null =>
        LET b == result.body
            newer == b.heatmap_b64 \notin {NULL, ""}
            legacy == b.heatmap_base64 \notin {NULL, ""}
        IN  /\ newer => HeatmapSrc(b) = "data:image/png;base64," \o b.heatmap_b64
            /\ (~newer /\ legacy) =>
                  HeatmapSrc(b) = "data:image/png;base64," \o b.heatmap_base64
            /\ (~newer /\ ~legacy) => (HeatmapSrc(b) = NULL /\ error = NULL)

\* C23 witness: a result whose response carried both overlay fields.
C23_Witness ==
    /\ page = "xray" /\ result # Null
    /\ result.body.heatmap_b64 = "new" /\ result.body.heatmap_base64 = "old"
    /\ HeatmapSrc(result.body) = "data:image/png;base64,new"

\* C24: every probability bar of a result has a width between 0% and 100%.
C24_ProbabilityInRange ==
    result # Null =>
        LET bars == SortedProbs(result.body.probabilities)
        IN  \A i \in DOMAIN bars :
                BarWidth(bars[i][2]) >= 0 /\ BarWidth(bars[i][2]) <= 100 * 100

\* C25: the confidence shown with a lab result is between 0% and 100% and
\* every value marker is placed between 0% and 100%.
C25_LabValuesInRange ==
    analysisResult # Null =>
        LET b == analysisResult.body
        IN  /\ ConfidenceShown(b.confidence) >= 0
            /\ ConfidenceShown(b.confidence) <= 100 * 100
            /\ \A i \in DOMAIN b.parameters :
                  MarkerLeft(b.parameters[i].percentage) \in 0..100

====
